---- MODULE Spec2Model ----
(***************************************************************************)
(* Region-enrichment driver (borrowck2/compiler/extract.rs) and the        *)
(* external-specification collector (specs/mod.rs, specs/external.rs).     *)
(*                                                                         *)
(* The driver is modelled statement by statement.  The calls it makes into *)
(* rustc (UniversalRegions::new, renumber_mir, free_region_relations::     *)
(* create, MoveData::gather_moves, the dataflow engine, type_check,        *)
(* generate_constraints) are modelled by what those callees do to the      *)
(* arguments the driver hands them, on a small MIR: every basic block      *)
(* holds one statement over the locals _1 (the argument) and _2 (a         *)
(* reference local) and ends in one terminator.                            *)
(***************************************************************************)
EXTENDS Integers, Sequences, FiniteSets, TLC

\* ---------------------------------------------------------------- bounds
\* Largest number of basic blocks of an input body.
MaxBlocks == 2
\* Largest number of where-clauses 'x: 'y of a signature.
MaxBounds == 2

\* ------------------------------------------------------------ vocabulary
\* Option<T>: None, or Some(x) holding x.
None == <<>>
Some(x) == <<x>>
\* The two enrichment calls (one per procedure under analysis); a call is
\* named by the DefId of its procedure.
Calls == {"p", "q"}
\* Named lifetime parameters of a signature, in declaration order.
LifetimeParams == <<"'a", "'b", "'c">>
\* Locals of a body: _1 is the argument, _2 has type &'r T.
Places == {"_1", "_2"}
\* A region of an already borrow-checked body: erased.
ReErased == 0 - 1
\* Statement kinds:  Assign: _1 = const;  Move: drop(move _1);
\* Borrow: _2 = &'r _1;  BadMove: move out of *_2 (behind a reference).
StmtKinds == {"Assign", "Move", "Borrow", "BadMove"}

\* A basic block: one statement and the successors of its terminator. A
\* Borrow statement carries the region of its reference type.
Block(k, s) == [kind |-> k, region |-> IF k = "Borrow" THEN Some(ReErased) ELSE None, succ |-> s]

\* Input bodies: a chain of n blocks, the last one returning or also jumping
\* back to some block (a loop); local_decls holds the region of _2's type.
BodiesOfLen(n) ==
    { [basic_blocks |-> [b \in 1..n |->
            Block(ks[b], IF b < n THEN {b + 1} ELSE back)],
       local_decls |-> <<ReErased>>] :
        ks \in [1..n -> StmtKinds], back \in {{}} \cup {{t} : t \in 1..n} }

Bodies == UNION { BodiesOfLen(n) : n \in 1..MaxBlocks }

\* Where-clauses of a signature: at most MaxBounds pairs 'x: 'y.
ParamNames == { LifetimeParams[i] : i \in 1..Len(LifetimeParams) }
BoundSets ==
    { bs \in SUBSET { <<x, y>> \in ParamNames \X ParamNames : x # y } :
        Cardinality(bs) <= MaxBounds }

VARIABLES
    tcx,        \* ambient type context: per DefId, what the queries answer
    bodies,     \* the mir::Body objects, by owner: <<c, "input_body">> is the
                \* caller's, <<c, "body">> the one collect_borrowck_info owns
    infcx,      \* inference contexts, one per enter(): region-variable
                \* counter and tainted_by_errors flag, None when not alive
    pc,         \* per call: the statement it executes next
    local,      \* per call: the locals of collect_borrowck_info
    stages,     \* per call: the callee stages completed so far, in order
    result,     \* per call: the MirBody returned, None before
    \* --- the specification collector (specs/mod.rs, specs/external.rs)
    def_spec,         \* SpecCollector::def_spec: DefId -> spec id refs
    extern_fn_map,    \* ExternSpecResolver::extern_fn_map:
                      \* real DefId -> (impl type, specification function)
    spec_duplicates,  \* ExternSpecResolver::spec_duplicates:
                      \* real DefId -> the (function, span) pairs rejected
    visited,          \* the functions visit_fn has been called on
    call,             \* the add_extern_fn call made last: the function it
                      \* was given and what its visitor found
    det,              \* the frame of a determine_def_specs call
    emitted           \* the errors emitted to the environment

evars == <<tcx, bodies, infcx, pc, local, stages, result>>

cvars == <<def_spec, extern_fn_map, spec_duplicates, visited, call, det, emitted>>

vars == <<evars, cvars>>

\* ------------------------------------------------ callees, as operators

\* Faulty variant: no clone, the stages work on the caller's body.
AliasInputBody(c) == <<c, "input_body">>

\* The body the stages of collect_borrowck_info operate on: the clone bound
\* by `let mut body = input_body.clone()`.
OwnBody(c) == <<c, "body">>

\* Faulty variant: every call works in the context of p's enter().
SharedInfcx(c) == "p"

\* The inference context a call works in: the one its own
\* tcx.infer_ctxt().enter(..) created.
InfcxOf(c) == c

\* UniversalRegions::new(infcx, def, param_env): the first region variables
\* of the context go to 'static, the named parameters and the body scope.
NumUniversal == Len(LifetimeParams) + 2

UniversalRegionsNew(n) ==
    [fr_static |-> n,
     named |-> [i \in 1..Len(LifetimeParams) |-> n + i],
     fr_fn_body |-> n + Len(LifetimeParams) + 1,
     first |-> n,
     num_universals |-> NumUniversal]

\* universal_regions.universal_regions(): all of them, 'static to fn body.
UniversalRegionVids(ur) == ur.first .. (ur.first + ur.num_universals - 1)

\* The region variable of a named parameter.
VidOf(ur, name) ==
    ur.named[CHOOSE i \in 1..Len(LifetimeParams) : LifetimeParams[i] = name]

\* renumber_mir(infcx, &mut body, &mut promoted): every region of the body's
\* types is replaced by a fresh region variable of the context, basic blocks
\* first, then the local declarations; promoted is empty.
RegionsBefore(blocks, b) ==
    Cardinality({ i \in 1..(b - 1) : blocks[i].region # None })

RenumberMir(body, n) ==
    LET blocks == body.basic_blocks
        inBlocks == RegionsBefore(blocks, Len(blocks) + 1)
    IN  [body |->
            [basic_blocks |-> [b \in 1..Len(blocks) |->
                IF blocks[b].region # None
                THEN [blocks[b] EXCEPT !.region = Some(n + RegionsBefore(blocks, b))]
                ELSE blocks[b]],
             local_decls |-> [i \in 1..Len(body.local_decls) |-> n + inBlocks + i - 1]],
         num_region_vars |-> n + inBlocks + Len(body.local_decls)]

\* free_region_relations::create: relate_universal_regions(a, b) for every
\* declared bound 'a: 'b, then for every universal region fr,
\* ('static, fr) and (fr, fn_body).  TransitiveRelation::add keeps the
\* edges as given (its closure is computed on demand, not stored).
CreateOutlives(ur, bounds) ==
    { <<VidOf(ur, bd[1]), VidOf(ur, bd[2])>> : bd \in bounds }
    \cup { <<ur.fr_static, fr>> : fr \in UniversalRegionVids(ur) }
    \cup { <<fr, ur.fr_fn_body>> : fr \in UniversalRegionVids(ur) }

\* normalized_inputs_and_output: the signature &'a T, &'b T, &'c T -> &'a T.
NormalizedInputsAndOutput(ur) ==
    [i \in 1..(Len(LifetimeParams) + 1) |->
        IF i <= Len(LifetimeParams) THEN ur.named[i] ELSE ur.named[1]]

\* Faulty variant: the pairs collected the wrong way round.
SwappedOutlives(rel) == { <<e[2], e[1]>> : e \in rel.outlives }

\* line 162: universal_region_relations.known_outlives()
\*               .map(|(r1, r2)| (*r1, *r2)).collect()
\* known_outlives() yields the relation's base edges.
KnownOutlives(rel) == { <<e[1], e[2]>> : e \in rel.outlives }

\* LocationTable::new(&body): statements_before_block; every block holds one
\* statement and one terminator, each with a start and a mid point.
LocationTableNew(body) ==
    [b \in 1..Len(body.basic_blocks) |-> 2 * (b - 1)]

StartIndex(table, b, i) == 2 * (table[b] + i)
MidIndex(table, b, i) == 2 * (table[b] + i) + 1

\* MoveData::gather_moves(&body, tcx, param_env): Err with one IllegalMove
\* per move out of borrowed content, Ok otherwise; the move data records the
\* legal moves and the initializations either way.
GatherMoves(body) ==
    LET blocks == body.basic_blocks
    IN  [move_data |->
            [moves |-> { b \in 1..Len(blocks) : blocks[b].kind = "Move" },
             inits |-> { b \in 1..Len(blocks) : blocks[b].kind \in {"Assign", "Borrow"} }],
         move_errors |-> { <<"_2", b>> : b \in { x \in 1..Len(blocks) : blocks[x].kind = "BadMove" } }]

\* BorrowSet::build: one borrow per `_2 = &'r _1`, indexed in block order.
BorrowSetBuild(body) ==
    LET blocks == body.basic_blocks
        locs == { b \in 1..Len(blocks) : blocks[b].kind = "Borrow" }
    IN  [b \in locs |->
            [index |-> Cardinality({ x \in locs : x < b }),
             region |-> blocks[b].region[1],
             borrowed_place |-> "_1"]]

\* ----------------------------------------------- initialization dataflow

\* MaybeInitializedPlaces: the effect of a block's statement on the set of
\* maybe-initialized places (gen on initialization, kill on move-out).
Transfer(block, state) ==
    CASE block.kind = "Assign" -> state \cup {"_1"}
      [] block.kind = "Move"   -> state \ {"_1"}
      [] block.kind = "Borrow" -> state \cup {"_2"}
      [] OTHER                 -> state

\* Engine::new: bottom everywhere, the arguments initialized on entry of the
\* start block; the dirty queue holds the blocks in reverse postorder.
EntrySetsNew(body) ==
    [b \in 1..Len(body.basic_blocks) |-> IF b = 1 THEN {"_1"} ELSE {}]

DirtyQueueNew(body) == [b \in 1..Len(body.basic_blocks) |-> b]

\* Faulty variant: the successor is queued whether or not its set changed.
InsertAlways(set_changed) == TRUE

\* propagate: `if set_changed { dirty_queue.insert(target) }`
ShouldInsert(set_changed) == set_changed

RECURSIVE SeqOfSet(_)
SeqOfSet(S) ==
    IF S = {} THEN <<>>
    ELSE LET m == CHOOSE x \in S : \A y \in S : x <= y
         IN  <<m>> \o SeqOfSet(S \ {m})

InQueue(q, b) == \E i \in 1..Len(q) : q[i] = b

\* One turn of `while let Some(bb) = dirty_queue.pop()`: apply the block's
\* effect to its entry set and join the result into every successor.
FlowIterate(body, entry_sets, dirty_queue) ==
    LET bb == Head(dirty_queue)
        rest == Tail(dirty_queue)
        exit == Transfer(body.basic_blocks[bb], entry_sets[bb])
        succ == body.basic_blocks[bb].succ
        joined == [t \in DOMAIN entry_sets |->
                     IF t \in succ THEN entry_sets[t] \cup exit ELSE entry_sets[t]]
        dirty == { t \in succ :
                     ShouldInsert(joined[t] # entry_sets[t]) /\ ~InQueue(rest, t) }
    IN  [entry_sets |-> joined, dirty_queue |-> rest \o SeqOfSet(dirty)]

\* ------------------------------------------- constraint and fact passes

\* type_check, visiting the statement of block b: a borrow gives a
\* borrow_region fact; uses and definitions of locals give access facts.
TypeCheckFacts(body, table, borrow_set, b) ==
    LET blk == body.basic_blocks[b]
        mid == MidIndex(table, b, 0)
    IN  CASE blk.kind = "Borrow" ->
                { <<"borrow_region", blk.region[1], borrow_set[b].index, mid>>,
                  <<"var_used_at", "_1", mid>>,
                  <<"var_defined_at", "_2", mid>> }
          [] blk.kind = "Assign" -> { <<"var_defined_at", "_1", mid>> }
          [] blk.kind = "Move"   -> { <<"var_used_at", "_1", mid>> }
          [] OTHER               -> { <<"var_used_at", "_2", mid>> }

\* type_check, at its end (translate_outlives_facts): the region of every
\* borrow outlives the region of the type of _2 it is assigned to.
OutlivesFacts(body, table) ==
    { <<"outlives", body.basic_blocks[b].region[1], body.local_decls[1], MidIndex(table, b, 0)>> :
        b \in { x \in 1..Len(body.basic_blocks) : body.basic_blocks[x].kind = "Borrow" } }

\* generate_constraints, visiting block b: the cfg_edge facts of its
\* statement and terminator, and killed facts where _1 is overwritten.
ConstraintFacts(body, table, borrow_set, b) ==
    LET blk == body.basic_blocks[b]
    IN  { <<"cfg_edge", StartIndex(table, b, 0), MidIndex(table, b, 0)>>,
          <<"cfg_edge", MidIndex(table, b, 0), StartIndex(table, b, 1)>>,
          <<"cfg_edge", StartIndex(table, b, 1), MidIndex(table, b, 1)>> }
        \cup { <<"cfg_edge", MidIndex(table, b, 1), StartIndex(table, t, 0)>> : t \in blk.succ }
        \cup (IF blk.kind = "Assign"
              THEN { <<"killed", borrow_set[l].index, MidIndex(table, b, 0)>> : l \in DOMAIN borrow_set }
              ELSE {})

\* generate_constraints, visiting block b: the regions of the statement's
\* types are live at its location (add_regular_live_constraint).
LivenessOf(body, table, b) ==
    IF body.basic_blocks[b].region # None
    THEN { <<body.basic_blocks[b].region[1], MidIndex(table, b, 0)>> }
    ELSE {}

\* Faulty variant: the pass starts from an empty table.
ReplaceFacts(facts, new) == new

\* The facts handed on by a pass that adds `new` to the table `facts`.
AppendFacts(facts, new) == facts \cup new

\* ---------------------------------------------------- body assembly

\* derive::compute_outlives_map: from each region to the regions it is known
\* to outlive, flattening the outlives facts.
ComputeOutlivesMap(facts) ==
    LET edges == { f \in facts : f[1] = "outlives" }
    IN  [r \in { f[2] : f \in edges } |-> { f[3] : f \in { g \in edges : g[2] = r } }]

\* derive::extract_local_names: best effort; the bodies here carry no debug
\* names, so every local has no name available.
ExtractLocalNames(body) == [l \in Places |-> None]

\* enrich_mir_body lines 44-59: the MirBody built from the returned tuple.
MirBody(def_id, ret, polonius_facts) ==
    [def_id |-> def_id,
     inputs_and_output |-> ret.normalized_inputs_and_output,
     body |-> ret.body,
     tcx |-> "tcx",
     universal_regions |-> ret.universal_regions,
     universal_regions_outlives |-> ret.universal_region_outlives,
     polonius_facts |-> polonius_facts,
     location_table |-> ret.location_table,
     local_names |-> ExtractLocalNames(ret.body),
     outlives |-> ComputeOutlivesMap(polonius_facts)]

\* Faulty variant: gather_moves(..).unwrap(), panicking on invalid moves.
OnGatherMovesUnwrap(gathered) ==
    [move_data |-> gathered.move_data,
     move_errors |-> gathered.move_errors,
     panics |-> gathered.move_errors # {}]

\* lines 106-110: the match on gather_moves' result keeps the move data in
\* both arms and binds the errors to _move_errors; neither arm panics.
OnGatherMoves(gathered) ==
    [move_data |-> gathered.move_data,
     move_errors |-> gathered.move_errors,
     panics |-> FALSE]

\* Faulty variant: the tables' taint is ignored.
NeverTainted(cx, tables_tainted) == cx

\* lines 121-124: `if let Some(ErrorReported) = tables.tainted_by_errors
\*                   { infcx.set_tainted_by_errors(); }`
SetTaintedByErrors(cx, tables_tainted) ==
    IF tables_tainted THEN [cx EXCEPT !.tainted_by_errors = TRUE] ELSE cx

\* ------------------------------------------------------- control flow

\* Faulty variant: renumber_mir ahead of UniversalRegions::new.
StatementsRenumberFirst ==
    <<"enter", "clone", "as_local", "renumber_mir", "universal_regions", "create",
      "all_facts", "gather_moves", "borrow_set", "flow_new", "flow_iterate",
      "typeck_tables", "type_check", "generate_constraints", "known_outlives",
      "leave", "assemble", "returned">>

\* The statements of enrich_mir_body / collect_borrowck_info in the order
\* the code executes them; a label names the statement executed next.
Statements ==
    <<"enter", "clone", "as_local", "universal_regions", "renumber_mir", "create",
      "all_facts", "gather_moves", "borrow_set", "flow_new", "flow_iterate",
      "typeck_tables", "type_check", "generate_constraints", "known_outlives",
      "leave", "assemble", "returned">>

After(label) ==
    Statements[(CHOOSE i \in 1..Len(Statements) : Statements[i] = label) + 1]

\* The locals of collect_borrowck_info before any of them is bound.
NoLocals ==
    [universal_regions |-> None, promoted |-> None, constraints |-> None,
     universal_region_relations |-> None, normalized_inputs_and_output |-> None,
     all_facts |-> None, location_table |-> None, move_data |-> None,
     move_errors |-> None, borrow_set |-> None, entry_sets |-> None,
     dirty_queue |-> None, flow_inits |-> None, cursor |-> 1,
     universal_region_outlives |-> None, ret |-> None]

\* What the ambient context answers for one procedure.
TcxEntries ==
    [is_local : BOOLEAN, tainted_by_errors : BOOLEAN, bounds : BoundSets]

DefaultEntry == [is_local |-> TRUE, tainted_by_errors |-> FALSE, bounds |-> {}]

DefaultBody ==
    [basic_blocks |-> <<Block("Assign", {})>>, local_decls |-> <<ReErased>>]

\* HashMap::new()
EmptyMap == [k \in {} |-> None]

\* SpecCollector::new (mod.rs 54-62) and ExternSpecResolver::new
\* (external.rs 28-34); no determine_def_specs call is in progress.
NoFrame == [pc |-> "idle", def_spec |-> EmptyMap, pending |-> {}, ret |-> None]

NewCollector ==
    /\ def_spec = EmptyMap
    /\ extern_fn_map = EmptyMap
    /\ spec_duplicates = EmptyMap
    /\ visited = {}
    /\ call = None
    /\ det = NoFrame
    /\ emitted = {}

\* One enrichment call, of procedure p, about to start; the driver has not
\* asked for q.
Init ==
    /\ \E e \in TcxEntries : tcx = [d \in Calls |-> IF d = "p" THEN e ELSE DefaultEntry]
    /\ \E b \in Bodies :
         bodies = [r \in Calls \X {"input_body", "body"} |->
                     IF r[2] = "body" THEN None
                     ELSE IF r[1] = "p" THEN b ELSE DefaultBody]
    /\ infcx = [c \in Calls |-> None]
    /\ pc = [c \in Calls |-> IF c = "p" THEN "enter" ELSE "idle"]
    /\ local = [c \in Calls |-> NoLocals]
    /\ stages = [c \in Calls |-> <<>>]
    /\ result = [c \in Calls |-> None]
    /\ NewCollector

\* Two enrichment calls about to start, on one-block procedures.
InitPar ==
    /\ \E t \in [Calls -> BOOLEAN] :
         tcx = [d \in Calls |-> [DefaultEntry EXCEPT !.tainted_by_errors = t[d]]]
    /\ \E bs \in [Calls -> BodiesOfLen(1)] :
         bodies = [r \in Calls \X {"input_body", "body"} |->
                     IF r[2] = "body" THEN None ELSE bs[r[1]]]
    /\ infcx = [c \in Calls |-> None]
    /\ pc = [c \in Calls |-> "enter"]
    /\ local = [c \in Calls |-> NoLocals]
    /\ stages = [c \in Calls |-> <<>>]
    /\ result = [c \in Calls |-> None]
    /\ NewCollector

Goto(c, label) == pc' = [pc EXCEPT ![c] = label]

Done(c, stage) == stages' = [stages EXCEPT ![c] = Append(@, stage)]

Body(c) == bodies[OwnBody(c)]

Cx(c) == infcx[InfcxOf(c)]

\* ------------------------------------------------------------- actions

\* line 41: tcx.infer_ctxt().enter(|infcx| ..) builds a fresh context.
Enter(c) ==
    /\ pc[c] = "enter"
    /\ infcx' = [infcx EXCEPT ![InfcxOf(c)] =
                    [num_region_vars |-> 0, tainted_by_errors |-> FALSE]]
    /\ Goto(c, After("enter"))
    /\ UNCHANGED <<cvars, tcx, bodies, local, stages, result>>

\* line 68: let mut body = input_body.clone();
Clone(c) ==
    /\ pc[c] = "clone"
    /\ bodies' = [bodies EXCEPT ![OwnBody(c)] = bodies[<<c, "input_body">>]]
    /\ Goto(c, After("clone"))
    /\ UNCHANGED <<cvars, tcx, infcx, local, stages, result>>

\* lines 71-72: input_body.source.with_opt_param().as_local().unwrap()
\* panics when the owner is no local definition; unwinding drops the clone
\* and the context.
AsLocal(c) ==
    /\ pc[c] = "as_local"
    /\ IF tcx[c].is_local
       THEN /\ Goto(c, After("as_local"))
            /\ UNCHANGED <<bodies, infcx>>
       ELSE /\ Goto(c, "aborted")
            /\ bodies' = [bodies EXCEPT ![OwnBody(c)] = None]
            /\ infcx' = [infcx EXCEPT ![InfcxOf(c)] = None]
    /\ UNCHANGED <<cvars, tcx, local, stages, result>>

\* lines 73-74: UniversalRegions::new(infcx, def, param_env)
UniversalRegions(c) ==
    /\ pc[c] = "universal_regions"
    /\ local' = [local EXCEPT ![c].universal_regions =
                    UniversalRegionsNew(Cx(c).num_region_vars)]
    /\ infcx' = [infcx EXCEPT ![InfcxOf(c)].num_region_vars = @ + NumUniversal]
    /\ Done(c, "UniversalRegions::new")
    /\ Goto(c, After("universal_regions"))
    /\ UNCHANGED <<cvars, tcx, bodies, result>>

\* lines 75-76: renumber_mir(infcx, &mut body, &mut promoted)
Renumber(c) ==
    /\ pc[c] = "renumber_mir"
    /\ LET r == RenumberMir(Body(c), Cx(c).num_region_vars)
       IN  /\ bodies' = [bodies EXCEPT ![OwnBody(c)] = r.body]
           /\ infcx' = [infcx EXCEPT ![InfcxOf(c)].num_region_vars = r.num_region_vars]
    /\ local' = [local EXCEPT ![c].promoted = <<>>]
    /\ Done(c, "renumber_mir")
    /\ Goto(c, After("renumber_mir"))
    /\ UNCHANGED <<cvars, tcx, result>>

\* lines 79-102: the constraint accumulators, then
\* free_region_relations::create(.., &universal_regions, &mut constraints)
Create(c) ==
    /\ pc[c] = "create"
    /\ local' = [local EXCEPT
          ![c].constraints = [liveness_constraints |-> {}, outlives_constraints |-> {}],
          ![c].universal_region_relations =
              [outlives |-> CreateOutlives(local[c].universal_regions, tcx[c].bounds)],
          ![c].normalized_inputs_and_output =
              NormalizedInputsAndOutput(local[c].universal_regions)]
    /\ Done(c, "free_region_relations::create")
    /\ Goto(c, After("create"))
    /\ UNCHANGED <<cvars, tcx, bodies, infcx, result>>

\* lines 104-105: the empty fact table and the location table
AllFacts(c) ==
    /\ pc[c] = "all_facts"
    /\ local' = [local EXCEPT ![c].all_facts = Some({}),
                              ![c].location_table = LocationTableNew(Body(c))]
    /\ Goto(c, After("all_facts"))
    /\ UNCHANGED <<cvars, tcx, bodies, infcx, stages, result>>

\* lines 106-111: MoveData::gather_moves and the match on its result
Gather(c) ==
    /\ pc[c] = "gather_moves"
    /\ LET g == OnGatherMoves(GatherMoves(Body(c)))
       IN  IF g.panics
           THEN /\ Goto(c, "aborted")
                /\ bodies' = [bodies EXCEPT ![OwnBody(c)] = None]
                /\ infcx' = [infcx EXCEPT ![InfcxOf(c)] = None]
                /\ UNCHANGED <<local, stages>>
           ELSE /\ local' = [local EXCEPT ![c].move_data = g.move_data,
                                          ![c].move_errors = g.move_errors]
                /\ Done(c, "gather_moves")
                /\ Goto(c, After("gather_moves"))
                /\ UNCHANGED <<bodies, infcx>>
    /\ UNCHANGED <<cvars, tcx, result>>

\* lines 112-114: BorrowSet::build
BorrowSet(c) ==
    /\ pc[c] = "borrow_set"
    /\ local' = [local EXCEPT ![c].borrow_set = BorrowSetBuild(Body(c))]
    /\ Goto(c, After("borrow_set"))
    /\ UNCHANGED <<cvars, tcx, bodies, infcx, stages, result>>

\* lines 116-118: MaybeInitializedPlaces::new(..).into_engine(..)
FlowNew(c) ==
    /\ pc[c] = "flow_new"
    /\ local' = [local EXCEPT ![c].entry_sets = EntrySetsNew(Body(c)),
                              ![c].dirty_queue = DirtyQueueNew(Body(c))]
    /\ Goto(c, After("flow_new"))
    /\ UNCHANGED <<cvars, tcx, bodies, infcx, stages, result>>

\* line 119: iterate_to_fixpoint, one turn of its loop
FlowStep(c) ==
    /\ pc[c] = "flow_iterate"
    /\ local[c].dirty_queue # <<>>
    /\ LET f == FlowIterate(Body(c), local[c].entry_sets, local[c].dirty_queue)
       IN  local' = [local EXCEPT ![c].entry_sets = f.entry_sets,
                                  ![c].dirty_queue = f.dirty_queue]
    /\ UNCHANGED <<cvars, tcx, bodies, infcx, pc, stages, result>>

\* lines 119-120: the queue is empty; into_results_cursor
FlowDone(c) ==
    /\ pc[c] = "flow_iterate"
    /\ local[c].dirty_queue = <<>>
    /\ local' = [local EXCEPT ![c].flow_inits = local[c].entry_sets]
    /\ Done(c, "iterate_to_fixpoint")
    /\ Goto(c, After("flow_iterate"))
    /\ UNCHANGED <<cvars, tcx, bodies, infcx, result>>

\* lines 121-135: the typeck tables: taint, and the (empty) upvar list
TypeckTables(c) ==
    /\ pc[c] = "typeck_tables"
    /\ infcx' = [infcx EXCEPT ![InfcxOf(c)] =
                    SetTaintedByErrors(Cx(c), tcx[c].tainted_by_errors)]
    /\ Goto(c, After("typeck_tables"))
    /\ UNCHANGED <<cvars, tcx, bodies, local, stages, result>>

NumBlocks(c) == Len(Body(c).basic_blocks)

\* lines 137-150: type_check(.., &mut all_facts, ..), visiting one block
TypeCheckBlock(c) ==
    /\ pc[c] = "type_check"
    /\ local[c].cursor <= NumBlocks(c)
    /\ local' = [local EXCEPT
          ![c].all_facts = Some(AppendFacts(local[c].all_facts[1],
              TypeCheckFacts(Body(c), local[c].location_table,
                             local[c].borrow_set, local[c].cursor))),
          ![c].cursor = @ + 1]
    /\ UNCHANGED <<cvars, tcx, bodies, infcx, pc, stages, result>>

\* lines 137-150: type_check, after the last block: the outlives facts
TypeCheckEnd(c) ==
    /\ pc[c] = "type_check"
    /\ local[c].cursor > NumBlocks(c)
    /\ local' = [local EXCEPT
          ![c].all_facts = Some(AppendFacts(local[c].all_facts[1],
              OutlivesFacts(Body(c), local[c].location_table))),
          ![c].cursor = 1]
    /\ Done(c, "type_check")
    /\ Goto(c, After("type_check"))
    /\ UNCHANGED <<cvars, tcx, bodies, infcx, result>>

\* lines 152-160: generate_constraints(.., &mut constraints
\* .liveness_constraints, &mut all_facts, ..), visiting one block
GenerateConstraints(c) ==
    /\ pc[c] = "generate_constraints"
    /\ LET b == local[c].cursor
           last == b = NumBlocks(c)
       IN  /\ local' = [local EXCEPT
                 ![c].all_facts = Some(AppendFacts(local[c].all_facts[1],
                     ConstraintFacts(Body(c), local[c].location_table,
                                     local[c].borrow_set, b))),
                 ![c].constraints.liveness_constraints =
                     @ \cup LivenessOf(Body(c), local[c].location_table, b),
                 ![c].cursor = IF last THEN 1 ELSE b + 1]
           /\ IF last
              THEN Done(c, "generate_constraints") /\ Goto(c, After("generate_constraints"))
              ELSE UNCHANGED <<pc, stages>>
    /\ UNCHANGED <<cvars, tcx, bodies, infcx, result>>

\* lines 162-164: the known outlives pairs, and the returned tuple
Return(c) ==
    /\ pc[c] = "known_outlives"
    /\ LET uro == KnownOutlives(local[c].universal_region_relations)
       IN  local' = [local EXCEPT
              ![c].universal_region_outlives = uro,
              ![c].ret = [universal_regions |-> local[c].universal_regions,
                          universal_region_outlives |-> uro,
                          normalized_inputs_and_output |-> local[c].normalized_inputs_and_output,
                          body |-> Body(c),
                          all_facts |-> local[c].all_facts,
                          location_table |-> local[c].location_table]]
    /\ Goto(c, After("known_outlives"))
    /\ UNCHANGED <<cvars, tcx, bodies, infcx, stages, result>>

\* lines 42-43: the closure stores the tuple; enter returns and the
\* inference context is dropped
Leave(c) ==
    /\ pc[c] = "leave"
    /\ infcx' = [infcx EXCEPT ![InfcxOf(c)] = None]
    /\ Goto(c, After("leave"))
    /\ UNCHANGED <<cvars, tcx, bodies, local, stages, result>>

\* lines 44-59: result.unwrap(), all_facts_opt.unwrap(), the derived views
\* and the MirBody
Assemble(c) ==
    /\ pc[c] = "assemble"
    /\ IF local[c].ret.all_facts = None
       THEN /\ Goto(c, "aborted")
            /\ UNCHANGED <<stages, result>>
       ELSE /\ result' = [result EXCEPT ![c] =
                  Some(MirBody(c, local[c].ret, local[c].ret.all_facts[1]))]
            /\ Done(c, "assemble")
            /\ Goto(c, After("assemble"))
    /\ UNCHANGED <<cvars, tcx, bodies, infcx, local>>

Step(c) ==
    \/ Enter(c) \/ Clone(c) \/ AsLocal(c) \/ UniversalRegions(c) \/ Renumber(c)
    \/ Create(c) \/ AllFacts(c) \/ Gather(c) \/ BorrowSet(c) \/ FlowNew(c)
    \/ FlowStep(c) \/ FlowDone(c) \/ TypeckTables(c) \/ TypeCheckBlock(c)
    \/ TypeCheckEnd(c) \/ GenerateConstraints(c) \/ Return(c) \/ Leave(c)
    \/ Assemble(c)

Next == \E c \in Calls : Step(c)

\* One enrichment call.
Spec == Init /\ [][Next]_vars

\* Two enrichment calls, interleaved in any order.
SpecPar == InitPar /\ [][Next]_vars

\* The driver is straight-line code on one thread: a call that can take its
\* next statement takes it.
FairSpec == Init /\ [][Next]_vars /\ \A c \in Calls : WF_vars(Step(c))

\* ============================================ specification collector

\* Most call expressions in the body of a visited function.
MaxCalls == 1
\* Most specification id references attached to one function.
MaxSpecRefs == 1

\* The functions of the crate (visited by visit_fn) and of other crates.
LocalFns == {"f", "g", "h"}
ExternFns == {"ext"}
DefIds == LocalFns \cup ExternFns
\* Option<DefId> of the implementing type of a type-relative path.
ImplTys == {None, Some("T")}

\* A call expression: its callee path resolves to a definition (with the
\* implementing type get_impl_type finds), or to something else.
CallExprs ==
    [res : {"Def"}, def_id : DefIds, impl_ty : ImplTys]
    \cup {[res |-> "Local", def_id |-> "f", impl_ty |-> None]}

\* The call expressions of a function body, in visiting order.
FnBodies == UNION { [1..n -> CallExprs] : n \in 0..MaxCalls }

\* get_procedure_spec_ids (mod.rs 98-135): the references read from the
\* attributes, preconditions before postconditions; ids are per function.
ProcedureSpecIds(def_id, n) ==
    [i \in 1..n |->
        [kind |-> IF i = 1 THEN "Precondition" ELSE "Postcondition", id |-> <<def_id, i>>]]

\* HashMap::insert
Insert(map, k, v) == [x \in DOMAIN map \cup {k} |-> IF x = k THEN v ELSE map[x]]

\* ExternSpecVisitor::visit_expr (external.rs 129-143): the first call whose
\* callee resolves to Res::Def, with the span of that call.
RECURSIVE VisitExpr(_, _, _)
VisitExpr(fn, body, i) ==
    IF i > Len(body) THEN None
    ELSE IF body[i].res = "Def"
         THEN Some([def_id |-> body[i].def_id, impl_ty |-> body[i].impl_ty, span |-> <<fn, i>>])
         ELSE VisitExpr(fn, body, i + 1)

\* add_extern_fn (external.rs 43-75), on the two maps.
AddExternFn(map, dups, current_def_id, spec_found) ==
    IF spec_found = None
    THEN [extern_fn_map |-> map, spec_duplicates |-> dups]
    ELSE LET def_id == spec_found[1].def_id
             impl_ty == spec_found[1].impl_ty
             span == spec_found[1].span
         IN  IF def_id \in DOMAIN map /\ map[def_id].impl_ty = impl_ty
             THEN [extern_fn_map |-> map,
                   spec_duplicates |->
                       IF def_id \in DOMAIN dups
                       THEN [dups EXCEPT ![def_id] = Append(@, <<current_def_id, span>>)]
                       ELSE Insert(dups, def_id, << <<current_def_id, span>> >>)]
             ELSE [extern_fn_map |->
                       Insert(map, def_id, [impl_ty |-> impl_ty, spec_id |-> current_def_id]),
                   spec_duplicates |-> dups]

\* visit_fn (mod.rs 159-220) on a function without expr_id and spec_id
\* attributes: the extern specification, then the procedure specifications.
VisitFn(fn, has_extern_spec_attr, body, n) ==
    /\ det.pc = "idle"
    /\ fn \notin visited
    /\ visited' = visited \cup {fn}
    /\ IF has_extern_spec_attr
       THEN LET found == VisitExpr(fn, body, 1)
                r == AddExternFn(extern_fn_map, spec_duplicates, fn, found)
            IN  /\ extern_fn_map' = r.extern_fn_map
                /\ spec_duplicates' = r.spec_duplicates
                /\ call' = Some([current_def_id |-> fn, spec_found |-> found])
       ELSE /\ call' = None
            /\ UNCHANGED <<extern_fn_map, spec_duplicates>>
    /\ def_spec' = IF n > 0 THEN Insert(def_spec, fn, ProcedureSpecIds(fn, n)) ELSE def_spec
    /\ UNCHANGED <<evars, det, emitted>>

\* check_duplicates (external.rs 79-89): one error per real function with
\* duplicates, carrying the spans of the rejected specifications.
CheckDuplicates(dups) ==
    { [def_id |-> d, spans |-> [i \in 1..Len(dups[d]) |-> dups[d][i][2]]] : d \in DOMAIN dups }

\* Faulty variant: the test made on the specification function's id.
ContainsSpecId(local_def_spec, real_id, spec_id) == spec_id \in DOMAIN local_def_spec

\* mod.rs 85: `if def_spec.contains_key(real_id) { panic!("duplicate spec") }`
ContainsKey(local_def_spec, real_id, spec_id) == real_id \in DOMAIN local_def_spec

\* determine_def_specs (mod.rs 80-84): clone def_spec, report the
\* duplicates, take the clone of extern_fn_map to iterate over. The crate
\* has been visited by then.
DetermineDefSpecs ==
    /\ det.pc = "idle"
    /\ visited = LocalFns
    /\ det' = [pc |-> "loop", def_spec |-> def_spec,
               pending |-> DOMAIN extern_fn_map, ret |-> None]
    /\ emitted' = emitted \cup CheckDuplicates(spec_duplicates)
    /\ UNCHANGED <<evars, def_spec, extern_fn_map, spec_duplicates, visited, call>>

\* mod.rs 84-93: one turn of the loop, on the entry the HashMap iterator
\* yields next (any entry not yet yielded).
DetermineIter(real_id) ==
    /\ det.pc = "loop"
    /\ real_id \in det.pending
    /\ LET spec_id == extern_fn_map[real_id].spec_id
       IN  IF ContainsKey(det.def_spec, real_id, spec_id)
           THEN det' = [det EXCEPT !.pc = "panicked"]
           ELSE det' = [det EXCEPT
                   !.def_spec = IF spec_id \in DOMAIN @
                                THEN Insert(@, real_id, @[spec_id]) ELSE @,
                   !.pending = @ \ {real_id}]
    /\ UNCHANGED <<evars, def_spec, extern_fn_map, spec_duplicates, visited, call, emitted>>

\* mod.rs 94: the loop is over; the local map is returned.
DetermineReturn ==
    /\ det.pc = "loop"
    /\ det.pending = {}
    /\ det' = [det EXCEPT !.pc = "returned", !.ret = Some(det.def_spec)]
    /\ UNCHANGED <<evars, def_spec, extern_fn_map, spec_duplicates, visited, call, emitted>>

\* No enrichment is asked for while the specifications are collected.
InitCollector ==
    /\ tcx = [d \in Calls |-> DefaultEntry]
    /\ bodies = [r \in Calls \X {"input_body", "body"} |->
                   IF r[2] = "body" THEN None ELSE DefaultBody]
    /\ infcx = [c \in Calls |-> None]
    /\ pc = [c \in Calls |-> "idle"]
    /\ local = [c \in Calls |-> NoLocals]
    /\ stages = [c \in Calls |-> <<>>]
    /\ result = [c \in Calls |-> None]
    /\ NewCollector

NextCollector ==
    \/ \E fn \in LocalFns, n \in 0..MaxSpecRefs :
          \/ VisitFn(fn, FALSE, <<>>, n)
          \/ \E body \in FnBodies : VisitFn(fn, TRUE, body, n)
    \/ DetermineDefSpecs
    \/ \E real_id \in DefIds : DetermineIter(real_id)
    \/ DetermineReturn

\* The collector visiting a crate, then resolving the specifications.
SpecCollector == InitCollector /\ [][NextCollector]_vars

\* ============================================================== claims

Has(c, stage) == \E i \in 1..Len(stages[c]) : stages[c][i] = stage

\* Whenever a later stage of `order` has completed, every earlier one has.
Ordered(c, order) ==
    \A i, j \in 1..Len(order) : (i < j /\ Has(c, order[j])) => Has(c, order[i])

InputBody(c) == bodies[<<c, "input_body">>]

BadMoveBlocks(c) ==
    { b \in 1..Len(InputBody(c).basic_blocks) : InputBody(c).basic_blocks[b].kind = "BadMove" }

MirBodyFields ==
    {"def_id", "inputs_and_output", "body", "tcx", "universal_regions",
     "universal_regions_outlives", "polonius_facts", "location_table",
     "local_names", "outlives"}

\* C1: from the creation of the fact table on, every step of a run leaves
\* the fact table a superset of what it was, and the polonius_facts of the
\* returned MirBody hold every fact the table held.
C1_FactAppendOnly ==
    /\ [][\A c \in Calls :
            local[c].all_facts # None =>
                /\ local'[c].all_facts # None
                /\ local[c].all_facts[1] \subseteq local'[c].all_facts[1]]_vars
    /\ [](\A c \in Calls :
            result[c] # None => local[c].all_facts[1] \subseteq result[c][1].polonius_facts)

\* C1 witness: a call has returned a fact table holding facts of type_check
\* (borrow_region, outlives) and of generate_constraints (cfg_edge, killed).
C1_Witness ==
    \E c \in Calls :
        /\ result[c] # None
        /\ \A k \in {"borrow_region", "outlives", "cfg_edge", "killed"} :
              \E f \in result[c][1].polonius_facts : f[1] = k

\* C2 as claimed: the stages complete in the order renumbering, universal
\* region catalog (UniversalRegions::new, then create), dataflow,
\* type_check, generate_constraints, assembly.
C2_ClaimedOrder ==
    \A c \in Calls :
        Ordered(c, <<"renumber_mir", "UniversalRegions::new",
                     "free_region_relations::create", "iterate_to_fixpoint",
                     "type_check", "generate_constraints", "assemble">>)

\* C2 amended: the stages complete in the order UniversalRegions::new,
\* renumber_mir, free_region_relations::create, gather_moves,
\* iterate_to_fixpoint, type_check, generate_constraints, assembly; and the
\* catalog and its known-outlives edges are complete before the constraint
\* pass visits any statement.
C2_StageOrder ==
    \A c \in Calls :
        /\ Ordered(c, <<"UniversalRegions::new", "renumber_mir",
                        "free_region_relations::create", "gather_moves",
                        "iterate_to_fixpoint", "type_check",
                        "generate_constraints", "assemble">>)
        /\ pc[c] \in {"type_check", "generate_constraints"} =>
              /\ Has(c, "UniversalRegions::new")
              /\ Has(c, "free_region_relations::create")
              /\ Has(c, "iterate_to_fixpoint")
        /\ pc[c] = "generate_constraints" => Has(c, "type_check")

\* C2 witness: the catalog's regions exist and the body is not renumbered
\* yet.
C2_Witness ==
    \E c \in Calls : Has(c, "UniversalRegions::new") /\ ~Has(c, "renumber_mir")

\* C3: no step of an enrichment call, returning or aborting, changes the
\* caller's input body.
C3_InputBodyUntouched ==
    [][\A c \in Calls : bodies'[<<c, "input_body">>] = bodies[<<c, "input_body">>]]_vars

\* C3 witness: a call has returned a renumbered body that differs from the
\* input body it was given.
C3_Witness ==
    \E c \in Calls :
        /\ pc[c] = "returned"
        /\ result[c][1].body # InputBody(c)
        /\ InputBody(c).local_decls = <<ReErased>>

\* C4 as claimed: when gather_moves reported invalid moves, what the
\* enrichment returns carries the move-error list.
C4_ClaimedPropagated ==
    \A c \in Calls :
        (pc[c] = "returned" /\ BadMoveBlocks(c) # {}) =>
            /\ "move_errors" \in DOMAIN result[c][1]
            /\ result[c][1].move_errors = local[c].move_errors

\* C4 amended: when gather_moves reports invalid moves the call does not
\* abort, runs the dataflow and both constraint passes and returns a
\* MirBody; the move-error list is bound to the local _move_errors only,
\* and the MirBody returned has no component for it.
C4_MoveErrorsDropped ==
    \A c \in Calls :
        BadMoveBlocks(c) # {} =>
            /\ pc[c] = "aborted" => stages[c] = <<>>
            /\ Has(c, "gather_moves") =>
                  local[c].move_errors = { <<"_2", b>> : b \in BadMoveBlocks(c) }
            /\ pc[c] = "returned" =>
                  /\ Has(c, "iterate_to_fixpoint")
                  /\ Has(c, "type_check")
                  /\ Has(c, "generate_constraints")
                  /\ result[c] # None
                  /\ DOMAIN result[c][1] = MirBodyFields

\* C4 witness: a call whose body moves out of borrowed content has returned.
C4_Witness ==
    \E c \in Calls : pc[c] = "returned" /\ BadMoveBlocks(c) # {}

\* C5 as claimed: a call on a procedure whose type-check results are
\* erroneous returns with the taint flag set, in the MirBody it returns or
\* in its inference context.
C5_ClaimedTaintReturned ==
    \A c \in Calls :
        (pc[c] = "returned" /\ tcx[c].tainted_by_errors) =>
            \/ /\ "tainted_by_errors" \in DOMAIN result[c][1]
               /\ result[c][1].tainted_by_errors
            \/ /\ infcx[c] # None
               /\ infcx[c].tainted_by_errors

\* C5 amended: the inference context is flagged tainted before type_check
\* starts exactly when the type-check results are erroneous, and stays so
\* while type_check and generate_constraints run; both passes run and the
\* call returns a MirBody either way; the MirBody has no taint component
\* and the context holding the flag is dropped before the call returns.
C5_TaintInContextOnly ==
    \A c \in Calls :
        /\ pc[c] \in {"type_check", "generate_constraints", "known_outlives", "leave"} =>
              /\ infcx[c] # None
              /\ infcx[c].tainted_by_errors = tcx[c].tainted_by_errors
        /\ pc[c] = "returned" =>
              /\ Has(c, "type_check")
              /\ Has(c, "generate_constraints")
              /\ result[c] # None
              /\ DOMAIN result[c][1] = MirBodyFields
              /\ infcx[c] = None

\* C5 witness: a call on a procedure with erroneous type-check results has
\* returned.
C5_Witness ==
    \E c \in Calls : pc[c] = "returned" /\ tcx[c].tainted_by_errors

\* The known outlives edge of a declared bound 'x: 'y.
DeclaredEdges(c, ur) ==
    { <<VidOf(ur, bd[1]), VidOf(ur, bd[2])>> : bd \in tcx[c].bounds }

Ended(c) == pc[c] \in {"returned", "aborted"}

\* C7: every enrichment call that was started eventually ends, returned
\* with a MirBody or aborted without one; the dataflow loop in particular
\* empties its queue on every body, loops included.
C7_RunsToCompletion ==
    /\ \A c \in Calls : pc[c] # "idle" ~> Ended(c)
    /\ [](\A c \in Calls :
            /\ pc[c] = "returned" <=> result[c] # None
            /\ Has(c, "iterate_to_fixpoint") => local[c].dirty_queue = <<>>)

\* C7 witness: a call has returned for a body with a back edge whose target
\* was processed again: its entry set grew after the queue was first built.
C7_Witness ==
    \E c \in Calls :
        /\ pc[c] = "returned"
        /\ \E b \in 1..Len(InputBody(c).basic_blocks) :
              \E t \in InputBody(c).basic_blocks[b].succ :
                 /\ t <= b
                 /\ local[c].flow_inits[t] # EntrySetsNew(InputBody(c))[t]

\* What enrich_mir_body returns for the procedure of call c when no other
\* call runs: the stages applied in order to c's input, from a fresh
\* inference context.
EnrichAlone(c) ==
    LET ur == UniversalRegionsNew(0)
        body == RenumberMir(InputBody(c), NumUniversal).body
        table == LocationTableNew(body)
        borrows == BorrowSetBuild(body)
        blocks == 1..Len(body.basic_blocks)
        facts == UNION { TypeCheckFacts(body, table, borrows, b) : b \in blocks }
                 \cup OutlivesFacts(body, table)
                 \cup UNION { ConstraintFacts(body, table, borrows, b) : b \in blocks }
    IN  MirBody(c,
                [universal_regions |-> ur,
                 universal_region_outlives |->
                     KnownOutlives([outlives |-> CreateOutlives(ur, tcx[c].bounds)]),
                 normalized_inputs_and_output |-> NormalizedInputsAndOutput(ur),
                 body |-> body,
                 location_table |-> table],
                facts)

\* A step of call c: it moves c's program counter or changes c's locals.
Acts(c) == pc'[c] # pc[c] \/ local'[c] # local[c]

\* C8: with two calls interleaved in any order, a step of one call leaves
\* the other call's body clone, inference context, locals and result as
\* they were and never writes the ambient context or an input body, and a
\* call that returns returns the MirBody it returns when run alone.
C8_Isolation ==
    /\ [][/\ tcx' = tcx
          /\ \A c \in Calls : InputBody(c)' = InputBody(c)
          /\ \A c, d \in Calls :
                (Acts(c) /\ d # c) =>
                    /\ bodies'[<<d, "body">>] = bodies[<<d, "body">>]
                    /\ infcx'[d] = infcx[d]
                    /\ local'[d] = local[d]
                    /\ pc'[d] = pc[d]
                    /\ stages'[d] = stages[d]
                    /\ result'[d] = result[d]]_vars
    /\ [](\A c \in Calls :
            pc[c] = "returned" => result[c] = Some(EnrichAlone(c)))

\* C8 witness: both calls have returned, with different MirBody contents,
\* each the one it returns alone.
C8_Witness ==
    /\ \A c \in Calls : pc[c] = "returned" /\ result[c] = Some(EnrichAlone(c))
    /\ result["p"][1].body # result["q"][1].body
    /\ result["p"][1].polonius_facts # result["q"][1].polonius_facts

\* C9 as claimed: an add_extern_fn call that finds a specification for a
\* real function already in extern_fn_map adds the current function to that
\* function's spec_duplicates and leaves extern_fn_map as it was; one that
\* finds a specification for a real function not in the map adds the
\* function to extern_fn_map and leaves spec_duplicates as it was; one that
\* finds nothing changes neither map.
C9_ClaimedDuplicates ==
    [][call' # None /\ visited' # visited =>
         LET cur == call'[1].current_def_id
             found == call'[1].spec_found
         IN  IF found = None
             THEN extern_fn_map' = extern_fn_map /\ spec_duplicates' = spec_duplicates
             ELSE IF found[1].def_id \in DOMAIN extern_fn_map
                  THEN /\ extern_fn_map' = extern_fn_map
                       /\ found[1].def_id \in DOMAIN spec_duplicates'
                       /\ \E i \in 1..Len(spec_duplicates'[found[1].def_id]) :
                             spec_duplicates'[found[1].def_id][i] = <<cur, found[1].span>>
                  ELSE /\ found[1].def_id \in DOMAIN extern_fn_map'
                       /\ extern_fn_map'[found[1].def_id].spec_id = cur
                       /\ spec_duplicates' = spec_duplicates]_vars

\* The real functions that are the target of a redirection and have a
\* specification entry of their own.
Conflicts == DOMAIN extern_fn_map \cap DOMAIN def_spec

\* C10: a determine_def_specs call panics only when some key of
\* extern_fn_map has its own entry in def_spec, and then returns no map;
\* while such a key exists the loop still has it to visit, so the call
\* cannot return; a call that returns returns a map, and no such key
\* exists.
C10_ConflictIsFatal ==
    /\ det.pc = "panicked" => (Conflicts # {} /\ det.ret = None)
    /\ det.pc = "returned" => (Conflicts = {} /\ det.ret # None)
    /\ (det.pc = "loop" /\ Conflicts # {}) => det.pending \cap Conflicts # {}

\* C10 witness: the call panicked after the loop had handled another
\* redirection.
C10_Witness ==
    /\ det.pc = "panicked"
    /\ det.pending # DOMAIN extern_fn_map
    /\ det.def_spec # def_spec

\* The map the claim describes: every entry of the collector's def_spec,
\* and for each real function of extern_fn_map whose specification function
\* has an entry in the collector's def_spec, that entry's references.
ResolvedAgainstOriginal ==
    LET redirected == { r \in DOMAIN extern_fn_map :
                           extern_fn_map[r].spec_id \in DOMAIN def_spec }
    IN  [k \in DOMAIN def_spec \cup redirected |->
            IF k \in redirected
            THEN def_spec[extern_fn_map[k].spec_id]
            ELSE def_spec[k]]

\* C11 as claimed: whenever determine_def_specs returns, the map returned
\* is the one resolved against the collector's original def_spec, whatever
\* the order in which the entries of extern_fn_map were iterated.
C11_ClaimedOrderIndependent ==
    det.pc = "returned" => det.ret = Some(ResolvedAgainstOriginal)
====
